---- MODULE Spec2Model ----
\* minigrep-cli-tool: the line matcher of src/lib.rs (search and
\* search_case_insensitive, lazy iterators over contents.lines()) and the
\* driver of src/main.rs (Config::build, run, main).
\*
\* A text (Rust &str / String) is a sequence of characters; a character is a
\* one-token string.  "LF" is '\n', "CR" is '\r', "SIGMA" is U+03A3,
\* "sigma" is U+03C3 and "final_sigma" is U+03C2.  A line yielded by the
\* matcher is a borrowed slice of contents: the view [start |-> s, end |-> e]
\* stands for the characters contents[s+1 .. e].
EXTENDS Integers, Sequences, FiniteSets, TLC

VARIABLES pc, query, contents, pos, results, results_ci,
          args, env, fs, config, called, file_read, stdout, stderr, exit_status

vars == <<pc, query, contents, pos, results, results_ci,
          args, env, fs, config, called, file_read, stdout, stderr, exit_status>>

matcher_vars == <<query, contents, pos, results, results_ci>>
driver_vars == <<args, env, fs, config, called, file_read, stdout, stderr, exit_status>>

----------------------------------------------------------------------------
\* Bounds of the checked instances.

MaxContentsLen == 3
MaxQueryLen == 2
MaxFileLen == 2
MaxArgs == 3

\* Characters the query of the matcher instances is drawn from.
QueryChars == {"a", "A", "SIGMA", "LF"}
\* Characters the contents of the matcher instances are drawn from.
ContentChars == QueryChars \cup {"sigma", "CR", "."}
\* Characters the file text of the driver instances is drawn from.
DriverFileChars == {"a", "A", "LF"}

TextsUpTo(chars, n) == UNION {[1..k -> chars] : k \in 0..n}

----------------------------------------------------------------------------
\* Text primitives of the standard library, as the matcher uses them.

Text(c, v) == SubSeq(c, v.start + 1, v.end)

\* Contains changed to test only the start of the haystack (starts_with).
ContainsAtStart(hay, needle) ==
    /\ Len(needle) <= Len(hay)
    /\ \A k \in 1..Len(needle) : hay[k] = needle[k]

\* Contains changed to reject the empty needle.
ContainsNonEmpty(hay, needle) ==
    /\ needle # <<>>
    /\ \E i \in 0..(Len(hay) - Len(needle)) :
           \A k \in 1..Len(needle) : hay[i + k] = needle[k]

\* str::contains(&str): some window of the haystack equals the needle.
Contains(hay, needle) ==
    \E i \in 0..(Len(hay) - Len(needle)) :
        \A k \in 1..Len(needle) : hay[i + k] = needle[k]

\* Unicode properties Cased and Case_Ignorable, on the characters modelled.
Cased(ch) == ch \in {"a", "A", "SIGMA", "sigma", "final_sigma"}
Case_Ignorable(ch) == ch \in {".", ":", "'"}

\* case_ignorable_then_cased over s[i], s[i+step], ...: skip the
\* case-ignorable characters, then test whether the next one is cased.
RECURSIVE case_ignorable_then_cased(_, _, _)
case_ignorable_then_cased(s, i, step) ==
    IF i < 1 \/ i > Len(s) THEN FALSE
    ELSE IF Case_Ignorable(s[i]) THEN case_ignorable_then_cased(s, i + step, step)
    ELSE Cased(s[i])

\* map_uppercase_sigma: SIGMA lowers to final_sigma at the end of a word
\* (preceded by a cased letter, not followed by one), else to sigma.
map_uppercase_sigma(s, i) ==
    IF case_ignorable_then_cased(s, i - 1, -1) /\ ~case_ignorable_then_cased(s, i + 1, 1)
    THEN "final_sigma" ELSE "sigma"

\* conversions::to_lower of one character other than SIGMA.
to_lower(ch) == IF ch = "A" THEN "a" ELSE ch

\* str::to_lowercase: a new String, character by character, SIGMA by context.
to_lowercase(s) ==
    [i \in 1..Len(s) |-> IF s[i] = "SIGMA" THEN map_uppercase_sigma(s, i)
                                          ELSE to_lower(s[i])]

----------------------------------------------------------------------------
\* str::lines(): split_inclusive('\n'), then strip one trailing "\n" and,
\* only when a "\n" was stripped, one trailing "\r" before it.  The iterator
\* state is the offset pos of the rest of contents still to be split.

None == [some |-> FALSE]
Some(v, p) == [some |-> TRUE, line |-> v, pos |-> p]

\* LinesNext changed to keep the line terminator in the line (split_inclusive
\* without the strip).
LinesNextInclusive(c, p) ==
    IF p >= Len(c) THEN None
    ELSE LET nls == {j \in (p + 1)..Len(c) : c[j] = "LF"}
         IN  IF nls = {} THEN Some([start |-> p, end |-> Len(c)], Len(c))
             ELSE LET j == CHOOSE x \in nls : \A y \in nls : x <= y
                  IN  Some([start |-> p, end |-> j], j)

\* LinesNext changed to split('\n'): an empty piece after the last "\n", and
\* one empty line for the empty text.
LinesNextSplit(c, p) ==
    IF p > Len(c) THEN None
    ELSE LET nls == {j \in (p + 1)..Len(c) : c[j] = "LF"}
         IN  IF nls = {} THEN Some([start |-> p, end |-> Len(c)], Len(c) + 1)
             ELSE LET j == CHOOSE x \in nls : \A y \in nls : x <= y
                      e == IF j - 1 > p /\ c[j - 1] = "CR" THEN j - 2 ELSE j - 1
                  IN  Some([start |-> p, end |-> e], j)

\* LinesNext changed to strip a trailing "\r" from every line, the last,
\* unterminated one included.
LinesNextStripAnyCR(c, p) ==
    IF p >= Len(c) THEN None
    ELSE LET nls == {j \in (p + 1)..Len(c) : c[j] = "LF"}
             t == IF nls = {} THEN Len(c) + 1
                  ELSE CHOOSE x \in nls : \A y \in nls : x <= y
             e == IF t - 1 > p /\ c[t - 1] = "CR" THEN t - 2 ELSE t - 1
         IN  Some([start |-> p, end |-> e], IF t > Len(c) THEN Len(c) ELSE t)

LinesNext(c, p) ==
    IF p >= Len(c) THEN None
    ELSE LET nls == {j \in (p + 1)..Len(c) : c[j] = "LF"}
         IN  IF nls = {} THEN Some([start |-> p, end |-> Len(c)], Len(c))
             ELSE LET j == CHOOSE x \in nls : \A y \in nls : x <= y
                      e == IF j - 1 > p /\ c[j - 1] = "CR" THEN j - 2 ELSE j - 1
                  IN  Some([start |-> p, end |-> e], j)

\* Matches changed to fold the line but not the query.
MatchesQueryUnfolded(ignore_case, q, line) ==
    IF ignore_case THEN Contains(to_lowercase(line), q)
    ELSE Contains(line, q)

\* The closures given to filter: src/lib.rs line 48 and line 74.
Matches(ignore_case, q, line) ==
    IF ignore_case THEN Contains(to_lowercase(line), to_lowercase(q))
    ELSE Contains(line, q)

\* Filter::next over the lines iterator: pull lines until one satisfies the
\* closure (yield it) or the lines are exhausted (None).
RECURSIVE FilterNext(_, _, _, _)
FilterNext(ignore_case, q, c, p) ==
    LET n == LinesNext(c, p)
    IN  IF ~n.some THEN None
        ELSE IF Matches(ignore_case, q, Text(c, n.line)) THEN n
        ELSE FilterNext(ignore_case, q, c, n.pos)

\* One call of next() on the iterator search(query, contents) returned.
search(q, c, p) == FilterNext(FALSE, q, c, p)
\* One call of next() on the iterator search_case_insensitive returned.
search_case_insensitive(q, c, p) == FilterNext(TRUE, q, c, p)

----------------------------------------------------------------------------
\* Matcher instances: the library called as its tests call it, search
\* collected first and then search_case_insensitive on the same inputs.

NoConfig == [set |-> FALSE]

DriverIdle ==
    /\ args = <<>>
    /\ env = "unset"
    /\ fs = <<>>
    /\ config = NoConfig
    /\ called = {}
    /\ file_read = FALSE
    /\ stdout = <<>>
    /\ stderr = <<>>
    /\ exit_status = <<>>

Init ==
    /\ pc = "search"
    /\ query \in TextsUpTo(QueryChars, MaxQueryLen)
    /\ contents \in TextsUpTo(ContentChars, MaxContentsLen)
    /\ pos = 0
    /\ results = <<>>
    /\ results_ci = <<>>
    /\ DriverIdle

SearchNext ==
    /\ pc = "search"
    /\ LET n == search(query, contents, pos)
       IN  IF n.some
           THEN /\ results' = Append(results, n.line)
                /\ pos' = n.pos
                /\ pc' = pc
           ELSE /\ results' = results
                /\ pos' = 0
                /\ pc' = "search_ci"
    /\ UNCHANGED <<query, contents, results_ci, driver_vars>>

SearchCINext ==
    /\ pc = "search_ci"
    /\ LET n == search_case_insensitive(query, contents, pos)
       IN  IF n.some
           THEN /\ results_ci' = Append(results_ci, n.line)
                /\ pos' = n.pos
                /\ pc' = pc
           ELSE /\ results_ci' = results_ci
                /\ pos' = Len(contents)
                /\ pc' = "done"
    /\ UNCHANGED <<query, contents, results, driver_vars>>

Next == SearchNext \/ SearchCINext

Spec == Init /\ [][Next]_vars

----------------------------------------------------------------------------
\* Driver instances: src/main.rs.  args holds the command-line arguments
\* after the program name; an argument is valid Unicode with its text, or is
\* not valid Unicode (Args::next panics on it).  env is the state of the
\* IGNORE_CASE environment variable: "unset", "set" (to valid Unicode, the
\* empty value included) or "not_unicode".  fs is the file system: the one
\* path that can be read to a string and its text; reading any other path
\* fails.

Arg(t) == [unicode |-> TRUE, text |-> t]
NotUnicodeArg == [unicode |-> FALSE, text |-> <<>>]

FlagI == <<"/", "i">>
FlagS == <<"/", "s">>
FlagX == <<"/", "x">>

ReadablePath == <<"a">>
DriverArgTexts == {<<>>, <<"a">>, <<"A">>, FlagI, FlagS, FlagX}
DriverArgs == {Arg(t) : t \in DriverArgTexts} \cup {NotUnicodeArg}

Ok(cfg) == [kind |-> "ok", config |-> cfg, msg |-> ""]
Err(m) == [kind |-> "err", config |-> NoConfig, msg |-> m]
Panic == [kind |-> "panic", config |-> NoConfig, msg |-> ""]

\* env::var("IGNORE_CASE").is_ok(): Err when the variable is not present and
\* when its value is not valid Unicode.
EnvVarIsOk(e) == e = "set"

\* Build changed to reject a third argument that is neither flag.
BuildStrictFlag(a, e) ==
    IF Len(a) >= 1 /\ ~a[1].unicode THEN Panic
    ELSE IF Len(a) < 1 THEN Err("Didn't get a query string")
    ELSE IF Len(a) >= 2 /\ ~a[2].unicode THEN Panic
    ELSE IF Len(a) < 2 THEN Err("Didn't get a file path ")
    ELSE IF Len(a) >= 3 /\ ~a[3].unicode THEN Panic
    ELSE IF Len(a) >= 3 /\ a[3].text \notin {FlagI, FlagS} THEN Err("Unknown flag")
    ELSE Ok([set |-> TRUE, query |-> a[1].text, file_path |-> a[2].text,
             ignore_case |-> IF Len(a) >= 3 THEN a[3].text = FlagI ELSE EnvVarIsOk(e)])

\* Config::build: the arguments are taken in order with args.next(), which
\* panics on an argument that is not valid Unicode; arguments after the
\* third are never taken.
Build(a, e) ==
    IF Len(a) >= 1 /\ ~a[1].unicode THEN Panic
    ELSE IF Len(a) < 1 THEN Err("Didn't get a query string")
    ELSE IF Len(a) >= 2 /\ ~a[2].unicode THEN Panic
    ELSE IF Len(a) < 2 THEN Err("Didn't get a file path ")
    ELSE IF Len(a) >= 3 /\ ~a[3].unicode THEN Panic
    ELSE LET ignore_case_argument ==
                 IF Len(a) >= 3 /\ a[3].text = FlagI THEN <<TRUE>>
                 ELSE IF Len(a) >= 3 /\ a[3].text = FlagS THEN <<FALSE>>
                 ELSE <<>>
             ignore_case ==
                 IF ignore_case_argument # <<>> THEN ignore_case_argument[1]
                 ELSE EnvVarIsOk(e)
         IN  Ok([set |-> TRUE, query |-> a[1].text, file_path |-> a[2].text,
                 ignore_case |-> ignore_case])

\* read_to_string changed to fall back to the empty text on failure.
ReadToStringOrDefault(files, path) ==
    IF path = files.path THEN [ok |-> TRUE, text |-> files.text]
    ELSE [ok |-> TRUE, text |-> <<>>]

\* fs::read_to_string(config.file_path).
ReadToString(files, path) ==
    IF path = files.path THEN [ok |-> TRUE, text |-> files.text]
    ELSE [ok |-> FALSE, text |-> <<>>]

MatcherIdle ==
    /\ query = <<>>
    /\ contents = <<>>
    /\ pos = 0
    /\ results = <<>>
    /\ results_ci = <<>>

InitDriver ==
    /\ pc = "main"
    /\ args \in UNION {[1..k -> DriverArgs] : k \in 0..MaxArgs}
    /\ env \in {"unset", "set", "not_unicode"}
    /\ fs \in {[path |-> ReadablePath, text |-> t] : t \in TextsUpTo(DriverFileChars, MaxFileLen)}
    /\ config = NoConfig
    /\ called = {}
    /\ file_read = FALSE
    /\ stdout = <<>>
    /\ stderr = <<>>
    /\ exit_status = <<>>
    /\ MatcherIdle

\* main, line 40: Config::build succeeds.
MainBuildOk ==
    /\ pc = "main"
    /\ Build(args, env).kind = "ok"
    /\ config' = Build(args, env).config
    /\ pc' = "run"
    /\ UNCHANGED <<matcher_vars, args, env, fs, called, file_read, stdout, stderr, exit_status>>

\* main, lines 40-43: Config::build returns Err; the message is printed to
\* standard error and the process exits with status 1.
MainBuildErr ==
    /\ pc = "main"
    /\ Build(args, env).kind = "err"
    /\ stderr' = Append(stderr, <<"Problem parsing arguments: ", Build(args, env).msg>>)
    /\ exit_status' = <<1>>
    /\ pc' = "exit"
    /\ UNCHANGED <<matcher_vars, args, env, fs, config, called, file_read, stdout>>

\* Config::build panics in args.next(): the panic message goes to standard
\* error and the process exits with status 101.
MainBuildPanic ==
    /\ pc = "main"
    /\ Build(args, env).kind = "panic"
    /\ stderr' = Append(stderr, <<"thread 'main' panicked", "">>)
    /\ exit_status' = <<101>>
    /\ pc' = "exit"
    /\ UNCHANGED <<matcher_vars, args, env, fs, config, called, file_read, stdout>>

\* run, line 117, and main, lines 45-48: the file cannot be read.
RunReadErr ==
    /\ pc = "run"
    /\ ~ReadToString(fs, config.file_path).ok
    /\ stderr' = Append(stderr, <<"Applciation error: ", "read_to_string failed">>)
    /\ exit_status' = <<1>>
    /\ pc' = "exit"
    /\ UNCHANGED <<matcher_vars, args, env, fs, config, called, file_read, stdout>>

\* run, lines 117-122: the file is read and the matcher config.ignore_case
\* selects is called; it returns its lazy iterator.
RunReadOk ==
    /\ pc = "run"
    /\ ReadToString(fs, config.file_path).ok
    /\ contents' = ReadToString(fs, config.file_path).text
    /\ file_read' = TRUE
    /\ query' = config.query
    /\ pos' = 0
    /\ IF config.ignore_case
       THEN /\ called' = called \cup {"search_case_insensitive"}
            /\ pc' = "run_search_ci"
       ELSE /\ called' = called \cup {"search"}
            /\ pc' = "run_search"
    /\ UNCHANGED <<results, results_ci, args, env, fs, config, stdout, stderr, exit_status>>

\* println!("{line}"): the line and a line break.
Println(c, v) == Text(c, v) \o <<"LF">>

\* run, line 122: one step of for_each over search(..); when the iterator
\* ends run returns Ok(()) and main returns: exit status 0.
RunSearchNext ==
    /\ pc = "run_search"
    /\ LET n == search(query, contents, pos)
       IN  IF n.some
           THEN /\ stdout' = Append(stdout, Println(contents, n.line))
                /\ pos' = n.pos
                /\ UNCHANGED <<pc, exit_status>>
           ELSE /\ exit_status' = <<0>>
                /\ pc' = "exit"
                /\ UNCHANGED <<stdout, pos>>
    /\ UNCHANGED <<query, contents, results, results_ci, args, env, fs, config, called,
                   file_read, stderr>>

\* run, line 120: one step of for_each over search_case_insensitive(..).
RunSearchCINext ==
    /\ pc = "run_search_ci"
    /\ LET n == search_case_insensitive(query, contents, pos)
       IN  IF n.some
           THEN /\ stdout' = Append(stdout, Println(contents, n.line))
                /\ pos' = n.pos
                /\ UNCHANGED <<pc, exit_status>>
           ELSE /\ exit_status' = <<0>>
                /\ pc' = "exit"
                /\ UNCHANGED <<stdout, pos>>
    /\ UNCHANGED <<query, contents, results, results_ci, args, env, fs, config, called,
                   file_read, stderr>>

NextDriver ==
    \/ MainBuildOk
    \/ MainBuildErr
    \/ MainBuildPanic
    \/ RunReadErr
    \/ RunReadOk
    \/ RunSearchNext
    \/ RunSearchCINext

SpecDriver == InitDriver /\ [][NextDriver]_vars

----------------------------------------------------------------------------
\* The lines of a text, stated from its line breaks rather than computed by
\* the iterator: a line starts at offset 0 or right after a "\n", provided
\* text remains there; it ends before the next "\n" (before the "\r" of a
\* "\r\n") or at the end of the text.

LineStarts(c) == {s \in 0..(Len(c) - 1) : s = 0 \/ c[s] = "LF"}

LineAt(c, s) ==
    LET t == CHOOSE x \in (s + 1)..(Len(c) + 1) :
                 /\ x = Len(c) + 1 \/ c[x] = "LF"
                 /\ \A k \in (s + 1)..(x - 1) : c[k] # "LF"
        e == IF t <= Len(c) /\ t - 1 > s /\ c[t - 1] = "CR" THEN t - 2 ELSE t - 1
    IN  [start |-> s, end |-> e]

RECURSIVE LinesFrom(_, _)
LinesFrom(c, starts) ==
    IF starts = {} THEN <<>>
    ELSE LET s == CHOOSE x \in starts : \A y \in starts : x <= y
         IN  <<LineAt(c, s)>> \o LinesFrom(c, starts \ {s})

LineSeq(c) == LinesFrom(c, LineStarts(c))

\* The lines whose start the iterator has already passed.
LinesBefore(c, p) == LinesFrom(c, {s \in LineStarts(c) : s < p})

\* q occurs in line as a contiguous run of characters.
IsSubstring(q, line) ==
    \E i \in 1..(Len(line) + 1) : \E j \in 0..Len(line) :
        /\ j - i + 1 = Len(q)
        /\ SubSeq(line, i, j) = q

Range(s) == {s[i] : i \in DOMAIN s}

IsSubsequence(s, t) ==
    \E f \in [DOMAIN s -> DOMAIN t] :
        /\ \A i \in DOMAIN s : s[i] = t[f[i]]
        /\ \A i, j \in DOMAIN s : i < j => f[i] < f[j]

\* How far each iterator of a matcher instance has consumed contents.
ConsumedBySearch == IF pc = "search" THEN pos ELSE Len(contents)
ConsumedBySearchCI ==
    IF pc = "search" THEN 0 ELSE IF pc = "search_ci" THEN pos ELSE Len(contents)

----------------------------------------------------------------------------
\* C1: search yields a line of contents if and only if the line contains the
\* query as an exact substring: at every point of the iteration the lines
\* yielded so far are exactly the lines already passed that contain the query,
\* and after the last call they are exactly the lines of contents containing it.
C1_Exactness ==
    pc \in {"search", "search_ci", "done"} =>
        LET Hit(v) == IsSubstring(query, Text(contents, v))
        IN  results = SelectSeq(LinesBefore(contents, ConsumedBySearch), Hit)

C1_Witness ==
    /\ pc = "done"
    /\ query # <<>>
    /\ Len(results) >= 1
    /\ Len(results) < Len(LineSeq(contents))

C3_Subsequence ==
    pc \in {"search", "search_ci", "done"} =>
        /\ IsSubsequence(results, LineSeq(contents))
        /\ IsSubsequence(results_ci, LineSeq(contents))
        /\ \A i, j \in DOMAIN results : i < j => results[i].start < results[j].start
        /\ \A i, j \in DOMAIN results_ci : i < j => results_ci[i].start < results_ci[j].start

C3_Witness ==
    /\ pc = "done"
    /\ Len(LineSeq(contents)) = 2
    /\ results = <<LineSeq(contents)[2]>>
    /\ results_ci = LineSeq(contents)

\* C4: with the empty query both matchers yield exactly the full line
\* sequence of contents, in order.
C4_EmptyQuery ==
    pc \in {"search", "search_ci", "done"} /\ query = <<>> =>
        /\ results = LinesBefore(contents, ConsumedBySearch)
        /\ results_ci = LinesBefore(contents, ConsumedBySearchCI)
        /\ pc = "done" => results = LineSeq(contents) /\ results_ci = LineSeq(contents)

C4_Witness ==
    /\ pc = "done"
    /\ query = <<>>
    /\ Len(results) = 2
    /\ Len(results_ci) = 2

\* C5: on empty contents both matchers yield nothing, for every query, the
\* empty query included: empty contents has no line.
C5_EmptyContents ==
    pc \in {"search", "search_ci", "done"} /\ contents = <<>> =>
        /\ results = <<>>
        /\ results_ci = <<>>
        /\ pc = "search" => ~search(query, contents, pos).some
        /\ pc = "search_ci" => ~search_case_insensitive(query, contents, pos).some

C5_Witness ==
    /\ pc = "done"
    /\ contents = <<>>
    /\ query = <<>>
    /\ results = <<>>
    /\ results_ci = <<>>

\* Texts joined with "\n" between them.
RECURSIVE JoinLines(_, _)
JoinLines(c, views) ==
    IF views = <<>> THEN <<>>
    ELSE IF Len(views) = 1 THEN Text(c, views[1])
    ELSE Text(c, views[1]) \o <<"LF">> \o JoinLines(c, Tail(views))

\* A text with every "\r\n" replaced by "\n".
RECURSIVE CrLfToLf(_)
CrLfToLf(c) ==
    IF c = <<>> THEN <<>>
    ELSE IF Len(c) >= 2 /\ c[1] = "CR" /\ c[2] = "LF" THEN CrLfToLf(Tail(c))
    ELSE <<c[1]>> \o CrLfToLf(Tail(c))

UpToTrailingBreak(joined, c) == joined = c \/ joined \o <<"LF">> = c

\* C9 as stated: the lines yielded for the empty query, joined with "\n",
\* reconstruct contents up to a single trailing line break.
C9_AsStated ==
    pc = "done" /\ query = <<>> => UpToTrailingBreak(JoinLines(contents, results), contents)

\* C9 amended: the lines yielded for the empty query, joined with "\n",
\* reconstruct contents with every "\r\n" replaced by "\n", up to a single
\* trailing line break; the only characters splitting drops are the "\n"
\* line breaks and the "\r" that immediately precedes one.
C9_SplitReconstructs ==
    pc = "done" /\ query = <<>> =>
        UpToTrailingBreak(JoinLines(contents, results), CrLfToLf(contents))

C9_Witness ==
    /\ pc = "done"
    /\ query = <<>>
    /\ Len(results) = 2
    /\ \E i \in 1..(Len(contents) - 1) : contents[i] = "CR" /\ contents[i + 1] = "LF"
    /\ contents[Len(contents)] # "LF"

\* C10 as stated: every line search yields is also yielded by
\* search_case_insensitive on the same inputs.
C10_AsStated ==
    pc = "done" => IsSubsequence(results, results_ci)

----------------------------------------------------------------------------
\* Driver claims, under SpecDriver.

ThirdArg == IF Len(args) >= 3 THEN args[3].text ELSE <<>>

UnicodeArgsTaken == \A i \in 1..Len(args) : i <= 3 => args[i].unicode

\* C6 as stated: with query and file path present, "/i" makes run call
\* search_case_insensitive and "/s" makes it call search, whatever
\* IGNORE_CASE is; with neither flag the case-insensitive matcher is called
\* exactly when IGNORE_CASE is set; one matcher is called per run.
C6_AsStated ==
    called # {} =>
        /\ ThirdArg = FlagI => called = {"search_case_insensitive"}
        /\ ThirdArg = FlagS => called = {"search"}
        /\ ThirdArg \notin {FlagI, FlagS} =>
               called = IF env # "unset" THEN {"search_case_insensitive"} ELSE {"search"}

\* The selection as the code makes it: as C6 states it when IGNORE_CASE is
\* unset or set to a valid Unicode value; a value that is not valid Unicode
\* counts as unset.  At most one matcher is called, and exactly one by a run
\* that ends with status 0.
SelectionByFlagThenEnv ==
    /\ Cardinality(called) <= 1
    /\ pc = "exit" /\ exit_status = <<0>> => Cardinality(called) = 1
    /\ called # {} =>
           /\ ThirdArg = FlagI => called = {"search_case_insensitive"}
           /\ ThirdArg = FlagS => called = {"search"}
           /\ ThirdArg \notin {FlagI, FlagS} =>
                  called = IF env = "set" THEN {"search_case_insensitive"} ELSE {"search"}

\* The file path argument names no readable file, and Config::build got past
\* the arguments.
FileUnreadable ==
    /\ Len(args) >= 2
    /\ UnicodeArgsTaken
    /\ args[2].text # fs.path

\* C7: a missing query or file path fails in Config::build before any file
\* is read, and an unreadable file fails in run before any matcher is called;
\* such a run ends with a message on standard error and a non-zero exit
\* status, and has printed nothing; lines are printed only after the whole
\* file was read.
C7_FailureHandling ==
    pc \in {"main", "run", "run_search", "run_search_ci", "exit"} =>
        /\ Len(args) < 2 =>
               /\ pc \in {"main", "exit"}
               /\ ~config.set /\ ~file_read /\ called = {} /\ stdout = <<>>
               /\ pc = "exit" =>
                      /\ Len(stderr) = 1
                      /\ exit_status # <<>> /\ exit_status[1] # 0
                      /\ UnicodeArgsTaken => stderr[1][1] = "Problem parsing arguments: "
        /\ FileUnreadable =>
               /\ pc \in {"main", "run", "exit"}
               /\ ~file_read /\ called = {} /\ stdout = <<>>
               /\ pc = "exit" =>
                      /\ stderr = <<<<"Applciation error: ", "read_to_string failed">>>>
                      /\ exit_status # <<>> /\ exit_status[1] # 0
        /\ stdout # <<>> \/ called # {} => file_read /\ contents = fs.text

C7_Witness ==
    /\ pc = "exit"
    /\ FileUnreadable
    /\ config.set
    /\ exit_status = <<1>>
    /\ Len(stderr) = 1
    /\ fs.text # <<>>

\* A third argument that is valid Unicode and neither "/i" nor "/s".
InvalidFlag ==
    /\ Len(args) >= 3
    /\ UnicodeArgsTaken
    /\ args[3].text \notin {FlagI, FlagS}

\* C8 as stated: with a third argument that is neither "/i" nor "/s" the run
\* ends with a message on standard error and a non-zero exit status, without
\* a search.
C8_AsStated ==
    InvalidFlag /\ pc = "exit" =>
        /\ stderr # <<>>
        /\ exit_status # <<0>>
        /\ called = {}

\* C8 amended: a third argument that is valid Unicode and neither "/i" nor
\* "/s" is ignored: Config::build succeeds with ignore_case taken from
\* IGNORE_CASE as when no flag is given, and the search is performed; the run
\* fails only when the file cannot be read.
C8_InvalidFlagIgnored ==
    InvalidFlag =>
        /\ pc # "main" =>
               config = [set |-> TRUE, query |-> args[1].text, file_path |-> args[2].text,
                         ignore_case |-> (env = "set")]
        /\ pc = "exit" =>
               IF args[2].text = fs.path
               THEN /\ exit_status = <<0>>
                    /\ stderr = <<>>
                    /\ called = IF env = "set" THEN {"search_case_insensitive"} ELSE {"search"}
               ELSE /\ exit_status = <<1>>
                    /\ Len(stderr) = 1
                    /\ called = {}

C8_Witness ==
    /\ pc = "exit"
    /\ InvalidFlag
    /\ exit_status = <<0>>
    /\ stderr = <<>>
    /\ stdout # <<>>

====
